---- MODULE Spec2Model ----
(***************************************************************************)
(* backend/main.py: the response parser (parse_ai_response), the          *)
(* confidence scorer (calculate_confidence), and the /analyze/ endpoint    *)
(* with the lock around the shared Llama model.                            *)
(*                                                                         *)
(* A Python str is a sequence of characters; a character is a one-letter   *)
(* TLA+ string.  U+2022 (the bullet glyph) is not ASCII and is written     *)
(* Bullet.                                                                 *)
(***************************************************************************)
EXTENDS Integers, Sequences, FiniteSets, TLC

Bullet == "\\u2022"

\* ---------------------------------------------------------------- str methods

\* The characters str.strip() removes, among those the inputs are drawn from.
Whitespace == {" ", "\t", "\n", "\r", "\f"}

\* The argument of line.lstrip('<U+2022>- 1234567890.)') with the glyph written Bullet.
BulletChars ==
    {Bullet, "-", " ", "1", "2", "3", "4", "5", "6", "7", "8", "9", "0", ".", ")"}

UpperCase ==
    <<"A", "B", "C", "D", "E", "F", "G", "H", "I", "J", "K", "L", "M", "N", "O", "P",
    "Q", "R", "S", "T", "U", "V", "W", "X", "Y", "Z">>

LowerCase ==
    <<"a", "b", "c", "d", "e", "f", "g", "h", "i", "j", "k", "l", "m", "n", "o", "p",
    "q", "r", "s", "t", "u", "v", "w", "x", "y", "z">>

\* str.lower(), character by character
lower(s) ==
    [k \in 1..Len(s) |->
        IF \E u \in 1..Len(UpperCase) : UpperCase[u] = s[k]
        THEN LowerCase[CHOOSE u \in 1..Len(UpperCase) : UpperCase[u] = s[k]]
        ELSE s[k]]

\* s.lstrip(chars): drop the longest prefix made of characters of chars
lstrip(s, chars) ==
    IF \A k \in 1..Len(s) : s[k] \in chars
    THEN <<>>
    ELSE LET first == CHOOSE k \in 1..Len(s) :
                          s[k] \notin chars /\ \A j \in 1..(k - 1) : s[j] \in chars
         IN  SubSeq(s, first, Len(s))

\* s.rstrip(chars): drop the longest suffix made of characters of chars
rstrip(s, chars) ==
    IF \A k \in 1..Len(s) : s[k] \in chars
    THEN <<>>
    ELSE LET last == CHOOSE k \in 1..Len(s) :
                         s[k] \notin chars /\ \A j \in (k + 1)..Len(s) : s[j] \in chars
         IN  SubSeq(s, 1, last)

\* s.strip(): surrounding whitespace removed
strip(s) == rstrip(lstrip(s, Whitespace), Whitespace)

\* s.split(sep) for a one-character separator; ''.split(sep) is ['']
RECURSIVE split(_, _)
split(s, sep) ==
    IF \A k \in 1..Len(s) : s[k] # sep
    THEN <<s>>
    ELSE LET cut == CHOOSE k \in 1..Len(s) :
                        s[k] = sep /\ \A j \in 1..(k - 1) : s[j] # sep
         IN  <<SubSeq(s, 1, cut - 1)>> \o split(SubSeq(s, cut + 1, Len(s)), sep)

\* sub in s
contains(sub, s) ==
    \E k \in 0..(Len(s) - Len(sub)) : SubSeq(s, k + 1, k + Len(sub)) = sub

\* ---------------------------------------------------------- parse_ai_response

None == "None"

ExecutiveSummary ==
    <<"e", "x", "e", "c", "u", "t", "i", "v", "e", " ", "s", "u", "m", "m", "a", "r",
    "y">>
KeyPoints == <<"k", "e", "y", " ", "p", "o", "i", "n", "t", "s">>
Recommendations ==
    <<"r", "e", "c", "o", "m", "m", "e", "n", "d", "a", "t", "i", "o", "n", "s">>
Risks == <<"r", "i", "s", "k", "s">>
NextSteps == <<"n", "e", "x", "t", " ", "s", "t", "e", "p", "s">>

ListSections == {"key_points", "recommendations", "risks", "next_steps"}
SectionKeys == {"summary"} \cup ListSections

\* the dict literal sections = {...}
EmptySections ==
    [summary |-> <<>>, key_points |-> <<>>, recommendations |-> <<>>,
     risks |-> <<>>, next_steps |-> <<>>]

\* the chain with the risks branch tried before the recommendations branch
SectionHeader_RisksFirst(lower_line) ==
    IF contains(ExecutiveSummary, lower_line) THEN "summary"
    ELSE IF contains(KeyPoints, lower_line) THEN "key_points"
    ELSE IF contains(Risks, lower_line) THEN "risks"
    ELSE IF contains(Recommendations, lower_line) THEN "recommendations"
    ELSE IF contains(NextSteps, lower_line) THEN "next_steps"
    ELSE None

\* the if/elif chain over lower_line: the section a header line names, else None
SectionHeader(lower_line) ==
    IF contains(ExecutiveSummary, lower_line) THEN "summary"
    ELSE IF contains(KeyPoints, lower_line) THEN "key_points"
    ELSE IF contains(Recommendations, lower_line) THEN "recommendations"
    ELSE IF contains(Risks, lower_line) THEN "risks"
    ELSE IF contains(NextSteps, lower_line) THEN "next_steps"
    ELSE None

\* lstrip with the digits left out of its argument
cleaned_line_NoDigits(line) == lstrip(line, {Bullet, "-", " ", ".", ")"})

\* cleaned_line = line.lstrip('<U+2022>- 1234567890.)') with the glyph written Bullet
cleaned_line(line) == lstrip(line, BulletChars)

\* what sections[current_section].append(cleaned_line.strip()) appends
ListEntry(line) == strip(cleaned_line(line))

\* ------------------------------------------------------- calculate_confidence

Max(a, b) == IF a >= b THEN a ELSE b

\* the key-points test written <= 3 in place of < 3
calculate_confidence_OffByOne(s) ==
    LET score0 == 100
        score1 == IF strip(s.summary) = <<>> THEN score0 - 20 ELSE score0
        score2 == IF Len(s.key_points) <= 3 THEN score1 - 15 ELSE score1
        score3 == IF Len(s.recommendations) < 3 THEN score2 - 15 ELSE score2
        score4 == IF Len(s.risks) < 2 THEN score3 - 15 ELSE score3
        score5 == IF Len(s.next_steps) < 3 THEN score4 - 15 ELSE score4
    IN  Max(score5, 0)

calculate_confidence(s) ==
    LET score0 == 100
        score1 == IF strip(s.summary) = <<>> THEN score0 - 20 ELSE score0
        score2 == IF Len(s.key_points) < 3 THEN score1 - 15 ELSE score1
        score3 == IF Len(s.recommendations) < 3 THEN score2 - 15 ELSE score2
        score4 == IF Len(s.risks) < 2 THEN score3 - 15 ELSE score3
        score5 == IF Len(s.next_steps) < 3 THEN score4 - 15 ELSE score4
    IN  Max(score5, 0)

\* ------------------------------------------------------------------- inputs

\* The reply of the end-to-end scenario.
EndToEndInput ==
    <<"E", "x", "e", "c", "u", "t", "i", "v", "e", " ", "S", "u", "m", "m", "a", "r",
    "y", "\n", "T", "h", "i", "s", " ", "p", "o", "l", "i", "c", "y", " ", "u", "p",
    "d", "a", "t", "e", "s", " ", "t", "r", "a", "v", "e", "l", " ", "r", "e", "i",
    "m", "b", "u", "r", "s", "e", "m", "e", "n", "t", " ", "l", "i", "m", "i", "t",
    "s", ".", "\n", "K", "e", "y", " ", "P", "o", "i", "n", "t", "s", "\n", "-", " ",
    "L", "i", "m", "i", "t", " ", "r", "a", "i", "s", "e", "d", " ", "t", "o", " ",
    "$", "7", "5", "/", "d", "a", "y", "\n", "-", " ", "A", "p", "p", "l", "i", "e",
    "s", " ", "t", "o", " ", "a", "l", "l", " ", "d", "e", "p", "a", "r", "t", "m",
    "e", "n", "t", "s", "\n", "-", " ", "E", "f", "f", "e", "c", "t", "i", "v", "e",
    " ", "n", "e", "x", "t", " ", "f", "i", "s", "c", "a", "l", " ", "y", "e", "a",
    "r", "\n", "R", "e", "c", "o", "m", "m", "e", "n", "d", "a", "t", "i", "o", "n",
    "s", "\n", "1", ".", " ", "N", "o", "t", "i", "f", "y", " ", "f", "i", "n", "a",
    "n", "c", "e", " ", "t", "e", "a", "m", "s", "\n", "2", ".", " ", "U", "p", "d",
    "a", "t", "e", " ", "i", "n", "t", "e", "r", "n", "a", "l", " ", "f", "o", "r",
    "m", "s", "\n", "3", ".", " ", "P", "u", "b", "l", "i", "s", "h", " ", "n", "e",
    "w", " ", "g", "u", "i", "d", "e", "l", "i", "n", "e", "s", "\n", "R", "i", "s",
    "k", "s", "\n", "-", " ", "B", "u", "d", "g", "e", "t", " ", "o", "v", "e", "r",
    "r", "u", "n", " ", "i", "f", " ", "a", "d", "o", "p", "t", "i", "o", "n", " ",
    "i", "s", " ", "s", "l", "o", "w", "\n", "N", "e", "x", "t", " ", "S", "t", "e",
    "p", "s", "\n", "-", " ", "D", "r", "a", "f", "t", " ", "c", "o", "m", "m", "u",
    "n", "i", "c", "a", "t", "i", "o", "n", "\n", "-", " ", "S", "c", "h", "e", "d",
    "u", "l", "e", " ", "t", "r", "a", "i", "n", "i", "n", "g", "\n", "-", " ", "R",
    "e", "v", "i", "e", "w", " ", "i", "n", " ", "Q", "3">>

\* Lines a model reply is assembled from: headers in several spellings, a line
\* holding two header phrases, a bulleted item and a padded line.
ReplyLines ==
    <<<<"E", "x", "e", "c", "u", "t", "i", "v", "e", " ", "S", "u", "m", "m", "a", "r",
        "y">>,
      <<"#", "#", " ", "K", "E", "Y", " ", "P", "O", "I", "N", "T", "S", ":">>,
      <<"R", "i", "s", "k", "s">>,
      <<"l", "o", "w", " ", "r", "i", "s", "k", "s", " ", "a", "n", "d", " ", "r", "e",
        "c", "o", "m", "m", "e", "n", "d", "a", "t", "i", "o", "n", "s">>,
      <<"-", " ", "A", "l", "p", "h", "a">>,
      <<" ", " ", "p", "l", "a", "i", "n", "\t">>>>

MaxLines == 4
MaxChars == 3

\* The characters the free-form tail of a reply is drawn from.
Alphabet == {"a", " ", "\t", Bullet, "-", "1", ".", ")", "\n"}

RECURSIVE join(_, _)
join(ls, sep) ==
    IF Len(ls) = 0 THEN <<>>
    ELSE IF Len(ls) = 1 THEN ls[1]
    ELSE ls[1] \o <<sep>> \o join(Tail(ls), sep)

Strings(alphabet, n) == UNION {[1..m -> alphabet] : m \in 0..n}

\* Replies of up to MaxLines lines of ReplyLines.
LineReplies ==
    {join([k \in 1..Len(pick) |-> ReplyLines[pick[k]]], "\n") :
        pick \in Strings(1..Len(ReplyLines), MaxLines)}

\* Replies that open a list section and go on with any MaxChars characters.
CharReplies ==
    {KeyPoints \o <<"\n">> \o tail : tail \in Strings(Alphabet, MaxChars)}

Replies == LineReplies \cup CharReplies \cup {EndToEndInput}

\* -------------------------------------------------------------------- state

VARIABLES
    content,            \* parse_ai_response: the argument
    lines,              \* content.split('\n')
    idx,                \* position of the for loop in lines (1-based)
    current_section,    \* None or a key of sections
    sections,           \* the dict being filled
    pc,                 \* where the call stands
    confidence_score,   \* calculate_confidence(sections), None until computed
    uploads,            \* the names of the files in UPLOAD_DIR
    model_lock,         \* 0 when free, else the caller that holds it
    where,              \* per caller: where its /analyze/ request stands
    file_id,            \* per caller: request.file_id
    raised,             \* per caller: the exception in flight or caught
    response,           \* per caller: the HTTP response, once sent
    filename            \* per caller: file.filename of its /upload/ request

parserVars == <<content, lines, idx, current_section, sections, pc, confidence_score>>
serverVars == <<uploads, model_lock, where, file_id, raised, response, filename>>
vars == <<parserVars, serverVars>>

\* the parse entered with current_section = 'summary' in place of None
SplitLines_StartInSummary ==
    /\ pc = "start"
    /\ lines' = split(content, "\n")
    /\ sections' = EmptySections
    /\ current_section' = "summary"
    /\ idx' = 1
    /\ pc' = "for"
    /\ UNCHANGED <<content, confidence_score, serverVars>>

\* lines = content.split('\n'); sections = {...}; current_section = None
SplitLines ==
    /\ pc = "start"
    /\ lines' = split(content, "\n")
    /\ sections' = EmptySections
    /\ current_section' = None
    /\ idx' = 1
    /\ pc' = "for"
    /\ UNCHANGED <<content, confidence_score, serverVars>>

InLoop == pc = "for" /\ idx <= Len(lines)

\* line = line.strip() of the line the loop stands at
Line == strip(lines[idx])

\* if not line: continue
SkipBlank ==
    /\ InLoop
    /\ Line = <<>>
    /\ idx' = idx + 1
    /\ UNCHANGED <<content, lines, current_section, sections, pc, confidence_score, serverVars>>

\* a branch of the header chain: current_section = ...; continue
SwitchSection ==
    /\ InLoop
    /\ Line # <<>>
    /\ SectionHeader(lower(Line)) # None
    /\ current_section' = SectionHeader(lower(Line))
    /\ idx' = idx + 1
    /\ UNCHANGED <<content, lines, sections, pc, confidence_score, serverVars>>

IsContent == InLoop /\ Line # <<>> /\ SectionHeader(lower(Line)) = None

\* if current_section: is false, the line is dropped
DiscardLine ==
    /\ IsContent
    /\ current_section = None
    /\ idx' = idx + 1
    /\ UNCHANGED <<content, lines, current_section, sections, pc, confidence_score, serverVars>>

\* sections['summary'] += line + ' '
AppendSummary ==
    /\ IsContent
    /\ current_section = "summary"
    /\ sections' = [sections EXCEPT !.summary = @ \o Line \o <<" ">>]
    /\ idx' = idx + 1
    /\ UNCHANGED <<content, lines, current_section, pc, confidence_score, serverVars>>

\* the append skipped for an entry the list already holds
AppendEntry_Dedup ==
    /\ pc = "for" /\ idx <= Len(lines)
    /\ strip(lines[idx]) # <<>>
    /\ SectionHeader(lower(strip(lines[idx]))) = None
    /\ current_section \in ListSections
    /\ cleaned_line(strip(lines[idx])) # <<>>
    /\ sections' =
         IF \E k \in 1..Len(sections[current_section]) :
                sections[current_section][k] = ListEntry(strip(lines[idx]))
         THEN sections
         ELSE [sections EXCEPT ![current_section] = Append(@, ListEntry(strip(lines[idx])))]
    /\ idx' = idx + 1
    /\ UNCHANGED <<content, lines, current_section, pc, confidence_score, serverVars>>

\* if cleaned_line: sections[current_section].append(cleaned_line.strip())
AppendEntry ==
    /\ IsContent
    /\ current_section \in ListSections
    /\ cleaned_line(Line) # <<>>
    /\ sections' = [sections EXCEPT ![current_section] = Append(@, ListEntry(Line))]
    /\ idx' = idx + 1
    /\ UNCHANGED <<content, lines, current_section, pc, confidence_score, serverVars>>

\* cleaned_line is empty: nothing is appended
SkipBulletsOnly ==
    /\ IsContent
    /\ current_section \in ListSections
    /\ cleaned_line(Line) = <<>>
    /\ idx' = idx + 1
    /\ UNCHANGED <<content, lines, current_section, sections, pc, confidence_score, serverVars>>

\* return sections
ReturnSections ==
    /\ pc = "for"
    /\ idx > Len(lines)
    /\ pc' = "parsed"
    /\ UNCHANGED <<content, lines, idx, current_section, sections, confidence_score, serverVars>>

\* analyze_text: confidence_score=calculate_confidence(sections)
Score ==
    /\ pc = "parsed"
    /\ confidence_score' = calculate_confidence(sections)
    /\ pc' = "done"
    /\ UNCHANGED <<content, lines, idx, current_section, sections, serverVars>>

NumCallers == 2

\* no exception in flight
NoException == [class |-> None, status_code |-> 0, text |-> <<>>]

\* no response sent yet
NoResponse == [status_code |-> 0, detail |-> <<>>]
Callers == 1..NumCallers

\* no request has been made: the upload directory holds one document, the lock is free
ServerIdle ==
    /\ uploads = {"report.txt"}
    /\ model_lock = 0
    /\ where = [c \in Callers |-> "idle"]
    /\ file_id = [c \in Callers |-> None]
    /\ raised = [c \in Callers |-> NoException]
    /\ response = [c \in Callers |-> NoResponse]
    /\ filename = [c \in Callers |-> <<>>]

\* parse_ai_response is entered with a reply; nothing else is set yet
Init ==
    /\ ServerIdle
    /\ content \in Replies
    /\ lines = <<>>
    /\ idx = 0
    /\ current_section = None
    /\ sections = EmptySections
    /\ pc = "start"
    /\ confidence_score = None

Next ==
    \/ SplitLines
    \/ SkipBlank
    \/ SwitchSection
    \/ DiscardLine
    \/ AppendSummary
    \/ AppendEntry
    \/ SkipBulletsOnly
    \/ ReturnSections
    \/ Score

Spec == Init /\ [][Next]_vars

\* ------------------------------------------------------ calculate_confidence alone

MaxEntries == 4

\* summaries: empty, whitespace only, text
Summaries == {<<>>, <<" ">>, <<"\t", " ">>, <<"a", "b", " ">>}

\* lists of up to MaxEntries entries
EntryLists == UNION {[1..n -> {<<"x">>}] : n \in 0..MaxEntries}

\* calculate_confidence is entered with any five-bucket structure
ScoreInit ==
    /\ ServerIdle
    /\ content = <<>>
    /\ lines = <<>>
    /\ idx = 0
    /\ current_section = None
    /\ sections \in [summary : Summaries, key_points : EntryLists,
                      recommendations : EntryLists, risks : EntryLists,
                      next_steps : EntryLists]
    /\ pc = "parsed"
    /\ confidence_score = None

ScoreNext == Score

ScoreSpec == ScoreInit /\ [][ScoreNext]_vars

\* ------------------------------------------------------------------ /analyze/

\* the classes `except Exception` catches, among those raised here
ExceptionClasses == {"Exception", "HTTPException"}

\* what the underlying failure says of itself: str(e) of a library exception
Causes ==
    {<<"C", "U", "D", "A", " ", "o", "u", "t", " ", "o", "f", " ", "m", "e", "m", "o",
      "r", "y">>,
     <<"E", "r", "r", "o", "r", " ", "d", "u", "r", "i", "n", "g", " ", "d", "o", "c",
      "u", "m", "e", "n", "t", " ", "a", "n", "a", "l", "y", "s", "i", "s">>,
     <<>>}

FileNotFound == <<"F", "i", "l", "e", " ", "n", "o", "t", " ", "f", "o", "u", "n", "d">>

ErrorDuringDocumentAnalysis ==
    <<"E", "r", "r", "o", "r", " ", "d", "u", "r", "i", "n", "g", " ", "d", "o", "c",
    "u", "m", "e", "n", "t", " ", "a", "n", "a", "l", "y", "s", "i", "s">>

ErrorExtractingText ==
    <<"E", "r", "r", "o", "r", " ", "e", "x", "t", "r", "a", "c", "t", "i", "n", "g",
    " ", "t", "e", "x", "t", " ", "f", "r", "o", "m", " ", "f", "i", "l", "e", ":",
    " ">>

ErrorInLlamaInference ==
    <<"E", "r", "r", "o", "r", " ", "i", "n", " ", "L", "l", "a", "m", "a", " ", "i",
    "n", "f", "e", "r", "e", "n", "c", "e", ":", " ">>

ErrorInDocumentAnalysis ==
    <<"E", "r", "r", "o", "r", " ", "i", "n", " ", "d", "o", "c", "u", "m", "e", "n",
    "t", " ", "a", "n", "a", "l", "y", "s", "i", "s", ":", " ">>

\* the file_id values a request carries: an uploaded file and one that is not there
RequestedIds == {"report.txt", "missing.txt"}

HTTPException(status_code, detail) ==
    [class |-> "HTTPException", status_code |-> status_code, text |-> detail]

\* Exception(f"{prefix}{str(e)}")
Exception(prefix, text) ==
    [class |-> "Exception", status_code |-> 0, text |-> prefix \o text]

\* a library exception, raised with its own text
LibraryError(text) == [class |-> "Exception", status_code |-> 0, text |-> text]

\* the endpoint's handler with the caught text as the detail: detail=str(e)
HandlerResponse_DetailFromError(e) ==
    IF e.class \in ExceptionClasses
    THEN [status_code |-> 500, detail |-> e.text]
    ELSE [status_code |-> e.status_code, detail |-> e.text]

\* analyze_document, except Exception as e: raise HTTPException(500, ...); an
\* exception the clause does not catch reaches the framework as it is
HandlerResponse(e) ==
    IF e.class \in ExceptionClasses
    THEN [status_code |-> 500, detail |-> ErrorDuringDocumentAnalysis]
    ELSE [status_code |-> e.status_code, detail |-> e.text]

\* the lock kept when the block is left by an exception
WithExit_KeptOnRaise(c, by_exception) == IF by_exception THEN c ELSE 0

\* with model_lock: the lock after caller c leaves the block, either way
WithExit(c, by_exception) == 0

\* a caller posts /analyze/ with a file_id
Request(c) ==
    /\ where[c] \in {"idle", "responded"}
    /\ \E id \in RequestedIds : file_id' = [file_id EXCEPT ![c] = id]
    /\ raised' = [raised EXCEPT ![c] = NoException]
    /\ response' = [response EXCEPT ![c] = NoResponse]
    /\ where' = [where EXCEPT ![c] = "exists"]
    /\ UNCHANGED <<parserVars, filename, uploads, model_lock>>

\* if not os.path.exists(file_path): raise HTTPException(404, "File not found")
FileMissing(c) ==
    /\ where[c] = "exists"
    /\ file_id[c] \notin uploads
    /\ raised' = [raised EXCEPT ![c] = HTTPException(404, FileNotFound)]
    /\ where' = [where EXCEPT ![c] = "except"]
    /\ UNCHANGED <<parserVars, filename, uploads, model_lock, file_id, response>>

\* the file is there: on to extract_text_from_file
FileExists(c) ==
    /\ where[c] = "exists"
    /\ file_id[c] \in uploads
    /\ where' = [where EXCEPT ![c] = "extract"]
    /\ UNCHANGED <<parserVars, filename, uploads, model_lock, file_id, raised, response>>

\* extract_text_from_file returns the text; analyze_text calls
\* generate_llama_response, which comes to `with model_lock`
ExtractText(c) ==
    /\ where[c] = "extract"
    /\ where' = [where EXCEPT ![c] = "lock"]
    /\ UNCHANGED <<parserVars, filename, uploads, model_lock, file_id, raised, response>>

\* extract_text_from_file fails: Exception(f"Error extracting text from file: ...")
ExtractRaises(c) ==
    /\ where[c] = "extract"
    /\ \E cause \in Causes :
          raised' = [raised EXCEPT
                        ![c] = Exception(ErrorExtractingText, cause)]
    /\ where' = [where EXCEPT ![c] = "except"]
    /\ UNCHANGED <<parserVars, filename, uploads, model_lock, file_id, response>>

\* the block entered without waiting for the lock
Acquire_NoWait(c) ==
    /\ where[c] = "lock"
    /\ model_lock' = c
    /\ where' = [where EXCEPT ![c] = "tokenize"]
    /\ UNCHANGED <<parserVars, filename, uploads, file_id, raised, response>>

\* with model_lock: entered once the lock is free
Acquire(c) ==
    /\ where[c] = "lock"
    /\ model_lock = 0
    /\ model_lock' = c
    /\ where' = [where EXCEPT ![c] = "tokenize"]
    /\ UNCHANGED <<parserVars, filename, uploads, file_id, raised, response>>

\* the statements that use the shared tokenizer and model
InModel == {"tokenize", "generate", "decode"}

\* inputs = tokenizer(...)
Tokenize(c) ==
    /\ where[c] = "tokenize"
    /\ where' = [where EXCEPT ![c] = "generate"]
    /\ UNCHANGED <<parserVars, filename, uploads, model_lock, file_id, raised, response>>

\* outputs = model.generate(...)
Generate(c) ==
    /\ where[c] = "generate"
    /\ where' = [where EXCEPT ![c] = "decode"]
    /\ UNCHANGED <<parserVars, filename, uploads, model_lock, file_id, raised, response>>

\* response = tokenizer.decode(...), then the prompt is cut off it
Decode(c) ==
    /\ where[c] = "decode"
    /\ where' = [where EXCEPT ![c] = "return"]
    /\ UNCHANGED <<parserVars, filename, uploads, model_lock, file_id, raised, response>>

\* any of the three raises; except Exception as e catches it inside the block
InferenceRaises(c) ==
    /\ where[c] \in InModel
    /\ \E cause \in Causes : raised' = [raised EXCEPT ![c] = LibraryError(cause)]
    /\ where' = [where EXCEPT ![c] = "reraise"]
    /\ UNCHANGED <<parserVars, filename, uploads, model_lock, file_id, response>>

\* raise Exception(f"Error in Llama inference: {str(e)}") leaves the with block
Reraise(c) ==
    /\ where[c] = "reraise"
    /\ raised' = [raised EXCEPT
                     ![c] = Exception(ErrorInLlamaInference, raised[c].text)]
    /\ model_lock' = WithExit(c, TRUE)
    /\ where' = [where EXCEPT ![c] = "wrap"]
    /\ UNCHANGED <<parserVars, filename, uploads, file_id, response>>

\* return response leaves the with block
ReturnResponse(c) ==
    /\ where[c] = "return"
    /\ model_lock' = WithExit(c, FALSE)
    /\ where' = [where EXCEPT ![c] = "parse"]
    /\ UNCHANGED <<parserVars, filename, uploads, file_id, raised, response>>

\* analyze_text parses and scores the reply; the endpoint returns the analysis
ReturnAnalysis(c) ==
    /\ where[c] = "parse"
    /\ response' = [response EXCEPT ![c] = [status_code |-> 200, detail |-> <<>>]]
    /\ where' = [where EXCEPT ![c] = "responded"]
    /\ UNCHANGED <<parserVars, filename, uploads, model_lock, file_id, raised>>

\* a later step of analyze_text raises (building AnalysisResponse, say)
AnalysisRaises(c) ==
    /\ where[c] = "parse"
    /\ \E cause \in Causes : raised' = [raised EXCEPT ![c] = LibraryError(cause)]
    /\ where' = [where EXCEPT ![c] = "wrap"]
    /\ UNCHANGED <<parserVars, filename, uploads, model_lock, file_id, response>>

\* analyze_text: raise Exception(f"Error in document analysis: {str(e)}")
Wrap(c) ==
    /\ where[c] = "wrap"
    /\ raised' = [raised EXCEPT
                     ![c] = Exception(ErrorInDocumentAnalysis, raised[c].text)]
    /\ where' = [where EXCEPT ![c] = "except"]
    /\ UNCHANGED <<parserVars, filename, uploads, model_lock, file_id, response>>

\* the exception reaches the try of analyze_document
Respond(c) ==
    /\ where[c] = "except"
    /\ response' = [response EXCEPT ![c] = HandlerResponse(raised[c])]
    /\ where' = [where EXCEPT ![c] = "responded"]
    /\ UNCHANGED <<parserVars, filename, uploads, model_lock, file_id, raised>>

\* the server is up, nothing is being parsed
ServerInit ==
    /\ ServerIdle
    /\ content = <<>>
    /\ lines = <<>>
    /\ idx = 0
    /\ current_section = None
    /\ sections = EmptySections
    /\ pc = "idle"
    /\ confidence_score = None

ServerNext ==
    \E c \in Callers :
        \/ Request(c)
        \/ FileMissing(c)
        \/ FileExists(c)
        \/ ExtractText(c)
        \/ ExtractRaises(c)
        \/ Acquire(c)
        \/ Tokenize(c)
        \/ Generate(c)
        \/ Decode(c)
        \/ InferenceRaises(c)
        \/ Reraise(c)
        \/ ReturnResponse(c)
        \/ ReturnAnalysis(c)
        \/ AnalysisRaises(c)
        \/ Wrap(c)
        \/ Respond(c)

ServerSpec == ServerInit /\ [][ServerNext]_vars

\* a caller inside the with block goes on
InBlock(c) ==
    Tokenize(c) \/ Generate(c) \/ Decode(c) \/ InferenceRaises(c) \/ Reraise(c)
        \/ ReturnResponse(c)

\* every statement inside the block ends, and a caller waiting at a lock that
\* is free again and again gets it
FairServerSpec ==
    /\ ServerSpec
    /\ \A c \in Callers : WF_vars(InBlock(c)) /\ SF_vars(Acquire(c))

\* ------------------------------------------------------------------- /upload/

MaxUploads == 2

\* ALLOWED_EXTENSIONS
ALLOWED_EXTENSIONS ==
    {<<".", "p", "d", "f">>,
     <<".", "d", "o", "c">>,
     <<".", "d", "o", "c", "x">>,
     <<".", "t", "x", "t">>}

\* The names uploads come with: allowed extensions in lower and upper case, an
\* extension that is not allowed, two dots, no extension, and a name that is
\* only a leading dot and letters.
Filenames ==
    {<<"a", ".", "t", "x", "t">>,
     <<"b", ".", "P", "D", "F">>,
     <<"r", "u", "n", ".", "e", "x", "e">>,
     <<"x", ".", "t", "x", "t", ".", "s", "h">>,
     <<"n", "o", "t", "e", "s">>,
     <<".", "t", "x", "t">>,
     <<"v", ".", "1", "/", "d", "o", "c">>}

\* the position of the last c in p, 0 if there is none: p.rfind(c) + 1
LastIndex(p, c) ==
    IF \A k \in 1..Len(p) : p[k] # c THEN 0
    ELSE CHOOSE k \in 1..Len(p) : p[k] = c /\ \A j \in (k + 1)..Len(p) : p[j] # c

\* os.path.splitext(p)[1]: from the last dot on, when that dot comes after the
\* last separator and after a character of the base name that is not a dot
splitext_ext(p) ==
    LET sepIndex == LastIndex(p, "/")
        dotIndex == LastIndex(p, ".")
    IN  IF dotIndex > sepIndex
           /\ \E k \in (sepIndex + 1)..(dotIndex - 1) : p[k] # "."
        THEN SubSeq(p, dotIndex, Len(p))
        ELSE <<>>

\* file_ext = os.path.splitext(file.filename)[1].lower()
file_ext(name) == lower(splitext_ext(name))

RECURSIVE Str(_)
\* the characters of s as one name of the upload directory
Str(s) == IF s = <<>> THEN "" ELSE s[1] \o Str(Tail(s))

\* f"{uuid.uuid4()}{file_ext}" for the n-th identifier drawn
unique_filename(n, ext) == "uuid-" \o ToString(n) \o Str(ext)

\* uuid4 gives an identifier no stored file carries
Unused(n) == \A ext \in ALLOWED_EXTENSIONS : unique_filename(n, ext) \notin uploads

InvalidFileType ==
    <<"I", "n", "v", "a", "l", "i", "d", " ", "f", "i", "l", "e", " ", "t", "y", "p",
    "e", ".", " ", "A", "l", "l", "o", "w", "e", "d", " ", "t", "y", "p", "e", "s",
    ":", " ">>

\* ', '.join(ALLOWED_EXTENSIONS): a set is joined in whatever order it iterates
AllowedTypeLists ==
    {<<".", "p", "d", "f", ",", " ", ".", "d", "o", "c", ",", " ", ".", "d", "o", "c",
       "x", ",", " ", ".", "t", "x", "t">>,
     <<".", "t", "x", "t", ",", " ", ".", "d", "o", "c", "x", ",", " ", ".", "d", "o",
       "c", ",", " ", ".", "p", "d", "f">>}

\* str(e) of the exception upload_file caught: the text of a library error; for
\* an HTTPException the library's rendering, which depends on its version
str(e) ==
    IF e.class = "HTTPException"
    THEN {<<>>, e.text, <<"4", "0", "0", ":", " ">> \o e.text}
    ELSE {e.text}

\* upload_file, except Exception as e: raise HTTPException(500, detail=str(e));
\* an exception the clause does not catch reaches the framework as it is
UploadHandlerResponses(e) ==
    IF e.class \in ExceptionClasses
    THEN {[status_code |-> 500, detail |-> d] : d \in str(e)}
    ELSE {[status_code |-> e.status_code, detail |-> e.text]}

\* a caller posts /upload/ with a file
Upload(c) ==
    /\ where[c] \in {"idle", "responded"}
    /\ \E name \in Filenames : filename' = [filename EXCEPT ![c] = name]
    /\ raised' = [raised EXCEPT ![c] = NoException]
    /\ response' = [response EXCEPT ![c] = NoResponse]
    /\ where' = [where EXCEPT ![c] = "validate"]
    /\ UNCHANGED <<parserVars, uploads, model_lock, file_id>>

\* if file_ext not in ALLOWED_EXTENSIONS: raise HTTPException(400, ...)
RejectExtension(c) ==
    /\ where[c] = "validate"
    /\ file_ext(filename[c]) \notin ALLOWED_EXTENSIONS
    /\ \E types \in AllowedTypeLists :
          raised' = [raised EXCEPT ![c] = HTTPException(400, InvalidFileType \o types)]
    /\ where' = [where EXCEPT ![c] = "except"]
    /\ UNCHANGED <<parserVars, uploads, model_lock, file_id, response, filename>>

\* the extension is allowed: on to the save
AcceptExtension(c) ==
    /\ where[c] = "validate"
    /\ file_ext(filename[c]) \in ALLOWED_EXTENSIONS
    /\ where' = [where EXCEPT ![c] = "save"]
    /\ UNCHANGED <<parserVars, uploads, model_lock, file_id, raised, response, filename>>

\* the file is written under a fresh name and its record returned
SaveFile(c) ==
    /\ where[c] = "save"
    /\ Cardinality(uploads) <= MaxUploads
    /\ \E n \in 1..(MaxUploads + 1) :
          /\ Unused(n)
          /\ uploads' = uploads \cup {unique_filename(n, file_ext(filename[c]))}
    /\ response' = [response EXCEPT ![c] = [status_code |-> 200, detail |-> <<>>]]
    /\ where' = [where EXCEPT ![c] = "responded"]
    /\ UNCHANGED <<parserVars, model_lock, file_id, raised, filename>>

\* open() fails: nothing is written
SaveRaises(c) ==
    /\ where[c] = "save"
    /\ \E cause \in Causes : raised' = [raised EXCEPT ![c] = LibraryError(cause)]
    /\ where' = [where EXCEPT ![c] = "except"]
    /\ UNCHANGED <<parserVars, uploads, model_lock, file_id, response, filename>>

\* the exception reaches the try of upload_file
UploadRespond(c) ==
    /\ where[c] = "except"
    /\ \E r \in UploadHandlerResponses(raised[c]) :
          response' = [response EXCEPT ![c] = r]
    /\ where' = [where EXCEPT ![c] = "responded"]
    /\ UNCHANGED <<parserVars, uploads, model_lock, file_id, raised, filename>>

UploadNext ==
    \E c \in Callers :
        \/ Upload(c)
        \/ RejectExtension(c)
        \/ AcceptExtension(c)
        \/ SaveFile(c)
        \/ SaveRaises(c)
        \/ UploadRespond(c)

UploadSpec == ServerInit /\ [][UploadNext]_vars

\* ----------------------------------------------------------- parser properties

HeaderPhrases == <<ExecutiveSummary, KeyPoints, Recommendations, Risks, NextSteps>>
PhraseSection == <<"summary", "key_points", "recommendations", "risks", "next_steps">>

\* the line, lower-cased, holds at least one header phrase
HasPhrase(line) == \E p \in 1..Len(HeaderPhrases) : contains(HeaderPhrases[p], lower(line))

\* the section of the first phrase, in priority order, that the line holds
FirstPhrase(line) ==
    PhraseSection[CHOOSE p \in 1..Len(HeaderPhrases) :
        /\ contains(HeaderPhrases[p], lower(line))
        /\ \A q \in 1..(p - 1) : ~contains(HeaderPhrases[q], lower(line))]

\* the lines of a reply, each trimmed
Trimmed(text) == LET ls == split(text, "\n") IN [k \in 1..Len(ls) |-> strip(ls[k])]

IsHeaderLine(L, k) == L[k] # <<>> /\ HasPhrase(L[k])
IsContentLine(L, k) == L[k] # <<>> /\ ~HasPhrase(L[k])

\* the section of the most recent header line before line k, None if there is none
Owner(L, k) ==
    IF \A j \in 1..(k - 1) : ~IsHeaderLine(L, j) THEN None
    ELSE FirstPhrase(L[CHOOSE j \in 1..(k - 1) :
             IsHeaderLine(L, j) /\ \A m \in (j + 1)..(k - 1) : ~IsHeaderLine(L, m)])

\* some statement of parse_ai_response applies
CanStep ==
    \/ pc = "start"
    \/ pc = "for" /\ idx > Len(lines)
    \/ InLoop /\ Line = <<>>
    \/ InLoop /\ Line # <<>> /\ SectionHeader(lower(Line)) # None
    \/ IsContent /\ current_section \in {None} \cup SectionKeys

\* C1: for every reply the parse ends (no state short of the result is stuck), the
\* result has exactly the five keys summary, key_points, recommendations, risks and
\* next_steps, and for a reply with no header line (the empty reply among them) the
\* summary is "" and the four lists are empty, which scores 20.
C1_ParseTotal ==
    /\ DOMAIN sections = SectionKeys
    /\ pc \notin {"parsed", "done"} => CanStep
    /\ pc = "for" => idx \in 1..(Len(lines) + 1)
    /\ (pc \in {"parsed", "done"} /\ \A k \in 1..Len(lines) : ~HasPhrase(lines[k]))
          => sections = EmptySections
    /\ (pc = "done" /\ \A k \in 1..Len(lines) : ~HasPhrase(lines[k]))
          => confidence_score = 20

\* the empty reply, parsed and scored
C1_Witness == content = <<>> /\ pc = "done" /\ confidence_score = 20

\* C3: every entry of the four lists is non-empty, has no whitespace at either end
\* and does not begin with a character of the strip set.
C3_EntriesStripped ==
    \A b \in ListSections : \A k \in 1..Len(sections[b]) :
        LET e == sections[b][k] IN
        /\ e # <<>>
        /\ e[1] \notin Whitespace
        /\ e[Len(e)] \notin Whitespace
        /\ e[1] \notin BulletChars

\* C4: a non-blank line that holds a header phrase sets current_section to the
\* section of the first phrase in priority order and leaves every bucket as it
\* was, whatever section the line stands in.
C4_HeaderSwitches ==
    [][(InLoop /\ Line # <<>> /\ HasPhrase(Line))
          => (current_section' = FirstPhrase(Line) /\ sections' = sections
              /\ idx' = idx + 1)]_vars

\* a summary line holding "risks" and "recommendations" has just been read: the
\* summary keeps what it had and the section is now recommendations
C4_Witness ==
    /\ pc = "for" /\ idx = 4
    /\ lines[1] = ReplyLines[1] /\ lines[2] = ReplyLines[6] /\ lines[3] = ReplyLines[4]
    /\ sections.summary = <<"p", "l", "a", "i", "n", " ">>
    /\ current_section = "recommendations"

RECURSIVE RoutedEntries(_, _, _)
\* the entries lines 1..k of L give bucket b, in order
RoutedEntries(L, b, k) ==
    IF k = 0 THEN <<>>
    ELSE RoutedEntries(L, b, k - 1) \o
         (IF IsContentLine(L, k) /\ Owner(L, k) = b /\ cleaned_line(L[k]) # <<>>
          THEN <<ListEntry(L[k])>> ELSE <<>>)

RECURSIVE RoutedSummary(_, _)
\* the summary lines 1..k of L give
RoutedSummary(L, k) ==
    IF k = 0 THEN <<>>
    ELSE RoutedSummary(L, k - 1) \o
         (IF IsContentLine(L, k) /\ Owner(L, k) = "summary" THEN L[k] \o <<" ">> ELSE <<>>)

\* C5: each content line goes to the bucket of the most recent header line before
\* it and to no other, and to none when no header precedes it; each list keeps its
\* entries in reply order, duplicates included.
C5_RoutedByLastHeader ==
    pc = "parsed" =>
        LET L == Trimmed(content) IN
        /\ sections.summary = RoutedSummary(L, Len(L))
        /\ \A b \in ListSections : sections[b] = RoutedEntries(L, b, Len(L))

\* Risks comes before Key Points and is opened twice; risks holds the same entry twice
C5_Witness ==
    /\ pc = "parsed"
    /\ lines = <<ReplyLines[3], ReplyLines[5], ReplyLines[3], ReplyLines[5]>>
    /\ sections.risks = <<<<"A", "l", "p", "h", "a">>, <<"A", "l", "p", "h", "a">>>>

\* a line before any header went nowhere, and Risks was filled before Key Points
C5_WitnessOrder ==
    /\ pc = "parsed"
    /\ lines = <<ReplyLines[5], ReplyLines[3], ReplyLines[5], ReplyLines[2]>>
    /\ sections = [EmptySections EXCEPT !.risks = <<<<"A", "l", "p", "h", "a">>>>]

\* C9: the end-to-end reply parses to the stated summary (trailing space kept), the
\* stated lists, and scores 85.
C9_EndToEnd ==
    (content = EndToEndInput /\ pc = "done") =>
        /\ sections.summary =
             <<"T", "h", "i", "s", " ", "p", "o", "l", "i", "c", "y", " ", "u", "p", "d", "a",
                "t", "e", "s", " ", "t", "r", "a", "v", "e", "l", " ", "r", "e", "i",
                "m", "b", "u", "r", "s", "e", "m", "e", "n", "t", " ", "l", "i", "m",
                "i", "t", "s", ".", " ">>
        /\ sections.key_points =
             <<<<"L", "i", "m", "i", "t", " ", "r", "a", "i", "s", "e", "d", " ", "t", "o", " ",
                 "$", "7", "5", "/", "d", "a", "y">>,
               <<"A", "p", "p", "l", "i", "e", "s", " ", "t", "o", " ", "a", "l", "l", " ", "d",
                 "e", "p", "a", "r", "t", "m", "e", "n", "t", "s">>,
               <<"E", "f", "f", "e", "c", "t", "i", "v", "e", " ", "n", "e", "x", "t", " ", "f",
                 "i", "s", "c", "a", "l", " ", "y", "e", "a", "r">>>>
        /\ sections.recommendations =
             <<<<"N", "o", "t", "i", "f", "y", " ", "f", "i", "n", "a", "n", "c", "e", " ", "t",
                 "e", "a", "m", "s">>,
               <<"U", "p", "d", "a", "t", "e", " ", "i", "n", "t", "e", "r", "n", "a", "l", " ",
                 "f", "o", "r", "m", "s">>,
               <<"P", "u", "b", "l", "i", "s", "h", " ", "n", "e", "w", " ", "g", "u", "i", "d",
                 "e", "l", "i", "n", "e", "s">>>>
        /\ sections.risks =
             <<<<"B", "u", "d", "g", "e", "t", " ", "o", "v", "e", "r", "r", "u", "n", " ", "i",
                 "f", " ", "a", "d", "o", "p", "t", "i", "o", "n", " ", "i", "s",
                 " ", "s", "l", "o", "w">>>>
        /\ sections.next_steps =
             <<<<"D", "r", "a", "f", "t", " ", "c", "o", "m", "m", "u", "n", "i", "c", "a", "t",
                 "i", "o", "n">>,
               <<"S", "c", "h", "e", "d", "u", "l", "e", " ", "t", "r", "a", "i", "n", "i", "n",
                 "g">>,
               <<"R", "e", "v", "i", "e", "w", " ", "i", "n", " ", "Q", "3">>>>
        /\ confidence_score = 85

C9_Witness == content = EndToEndInput /\ pc = "done" /\ Len(sections.risks) = 1

\* ------------------------------------------------------------ scorer properties

Deduction(applies, points) == IF applies THEN points ELSE 0

\* C2: the score is 100 less 20 for a summary that is empty once trimmed, less 15
\* for fewer than 3 key points, 15 for fewer than 3 recommendations, 15 for fewer
\* than 2 risks and 15 for fewer than 3 next steps; it lies in 0..100; exactly 3
\* key points (2 risks) cost nothing and one entry fewer costs exactly 15.
C2_ScoreFormula ==
    pc = "done" =>
        /\ confidence_score =
             100 - Deduction(\A k \in 1..Len(sections.summary) :
                                 sections.summary[k] \in Whitespace, 20)
                 - Deduction(Len(sections.key_points) < 3, 15)
                 - Deduction(Len(sections.recommendations) < 3, 15)
                 - Deduction(Len(sections.risks) < 2, 15)
                 - Deduction(Len(sections.next_steps) < 3, 15)
        /\ confidence_score \in 0..100
        /\ Len(sections.key_points) = 3 =>
             confidence_score - 15 =
                 calculate_confidence([sections EXCEPT !.key_points = Tail(@)])
        /\ Len(sections.risks) = 2 =>
             confidence_score - 15 =
                 calculate_confidence([sections EXCEPT !.risks = Tail(@)])

\* exactly 3 key points and 2 risks, everything else present as well: 100
C2_Witness ==
    /\ pc = "done"
    /\ Len(sections.key_points) = 3 /\ Len(sections.risks) = 2
    /\ confidence_score = 100

\* ---------------------------------------------------------- endpoint properties

\* C6: a request for a file that is not in the upload directory is answered 404,
\* "File not found", which is not the answer of a failed analysis.
C6_MissingFileIs404 ==
    \A c \in Callers :
        (where[c] = "responded" /\ file_id[c] \notin uploads) =>
            /\ response[c].status_code = 404
            /\ response[c].detail = FileNotFound

\* the exception the endpoint caught came out of analyze_text
FromAnalyzeText(c) ==
    /\ raised[c] # NoException
    /\ Len(raised[c].text) >= Len(ErrorInDocumentAnalysis)
    /\ SubSeq(raised[c].text, 1, Len(ErrorInDocumentAnalysis)) = ErrorInDocumentAnalysis

\* C7: when a step of analyze_text raised, the answer is 500 with the fixed detail
\* "Error during document analysis", and the detail does not hold the text of the
\* exception the endpoint caught, whatever the failure said of itself.
C7_GenericFailure ==
    \A c \in Callers :
        /\ where[c] = "except" => raised[c] # NoException
        /\ (where[c] = "responded" /\ FromAnalyzeText(c)) =>
              /\ response[c].status_code = 500
              /\ response[c].detail = ErrorDuringDocumentAnalysis
              /\ ~contains(raised[c].text, response[c].detail)

\* an inference failure that said "CUDA out of memory" has been answered
C7_Witness ==
    \E c \in Callers :
        /\ where[c] = "responded"
        /\ raised[c] # NoException
        /\ raised[c].text = ErrorInDocumentAnalysis \o ErrorInLlamaInference
                               \o <<"C", "U", "D", "A", " ", "o", "u", "t", " ", "o", "f", " ", "m", "e", "m", "o",
                                  "r", "y">>
        /\ response[c].status_code = 500

\* C8: at most one caller is in the tokenize/generate/decode statements, and a
\* caller in them holds model_lock.
C8_OneCallerInModel ==
    /\ \A c, d \in Callers : (where[c] \in InModel /\ where[d] \in InModel) => c = d
    /\ \A c \in Callers : where[c] \in InModel => model_lock = c

\* one caller is generating while another waits at the lock
C8_Witness ==
    \E c, d \in Callers : c # d /\ where[c] = "generate" /\ where[d] = "lock"

\* the statements of the with block
Holding == InModel \cup {"return", "reraise"}

InvalidType(c) ==
    /\ filename[c] # <<>>
    /\ file_ext(filename[c]) \notin ALLOWED_EXTENSIONS

\* C11: an upload whose lower-cased extension is not in ALLOWED_EXTENSIONS is
\* answered with status 400.
C11_InvalidTypeIs400 ==
    \A c \in Callers :
        (where[c] = "responded" /\ InvalidType(c)) => response[c].status_code = 400

\* the second half of C11: no step of such an upload changes the upload directory
C11_DirectoryUnchanged ==
    [][\A c \in Callers :
          (InvalidType(c) /\ where[c] # "responded" /\ where'[c] # where[c])
              => uploads' = uploads]_vars

\* an upload of run.exe has been answered
C11_Answered ==
    \E c \in Callers :
        /\ where[c] = "responded"
        /\ filename[c] = <<"r", "u", "n", ".", "e", "x", "e">>
        /\ response[c].status_code = 500

====
